---------------------------- MODULE Spec2Model ----------------------------
(***************************************************************************)
(* Model of QGCLink::QGCSend (src/src/drivers/qgclink/QGCSend.cc): the     *)
(* dispatch loop send(), its encoders, the rate scheduler should_run and   *)
(* the console mailbox, together with the producer threads that touch the   *)
(* shared state the loop reads.                                             *)
(***************************************************************************)
EXTENDS Integers, Sequences, FiniteSets, TLC

(***************************************************************************)
(* Bounds of the model.                                                     *)
(***************************************************************************)
MaxIter == 2        \* iterations of the dispatch loop that are explored
MaxEvents == 2      \* producer events and transport faults per behaviour
MaxParams == 1      \* parameters per parameter source, but in SpecParam
MaxDriverMsgs == 1  \* messages the drivers contribute per iteration
MaxDumpParams == 3  \* parameters per parameter source in SpecParam
MaxBase == 12       \* largest small base rate in SpecRate

(***************************************************************************)
(* Program constants.                                                       *)
(***************************************************************************)
send_rate == 200            \* int send_rate = 200;
CONSOLE_WIDTH == 50         \* console.resize(50);
SEVERITY_CRITICAL == 255    \* starts_with(console, "Critical") ? 255 : 0
REPLY_COUNT == 1            \* 1 /*num_params*/
REPLY_INDEX == -1           \* -1 /*index*/

VARIABLES
    pc,                  \* position of the dispatch thread in send()
    loop_count,          \* int loop_count
    send_queue,          \* *send_queue
    param_recv_local,    \* bool param_recv (local of send())
    cal_seen,            \* value get_requested_rc_calibration() returned
    held,                \* locks the dispatch thread holds
    servo_source, pilot_mode, filter_state, control_mode, attitude_source,
    connected,           \* the scoped_connections of send() are connected
    notified,            \* fields for which a notification was delivered
    switch_pilot_mode,   \* servo_switch's pilot mode (producer)
    controller_mode,     \* Control's controller mode (producer)
    trajectory_type,     \* Control's trajectory type (producer)
    param_recv,          \* qgc->param_recv
    requested_params,    \* qgc->requested_params
    requested_rc_calibration,   \* qgc's calibration-requested latch
    message_queue,       \* message_queue
    control_parameters,  \* Control::getInstance()->getParameters()
    heli_parameters,     \* Helicopter::getInstance()->getParameters()
    heartbeat_rate,      \* qgc->get_heartbeat_rate()
    rc_channel_rate,     \* qgc->get_rc_channel_rate()
    control_output_rate, \* qgc->get_control_output_rate()
    driver_rates,        \* one stream rate per driver of Driver::getDrivers()
    transport_log,       \* transport calls of the iteration in progress
    warnings,            \* number of reports made through qgc->warning()
    waits,               \* number of rl.wait() calls that returned
    finished,            \* number of rl.finishedCriticalSection() calls
    faults,              \* transport faults so far
    events,              \* producer events and transport faults so far
    pushed,              \* every console message pushed, with its round
    popped,              \* every console message popped, with its iteration
    drained,             \* FIFO entries as found when the drain began
    cal_unserved,        \* a set event not yet followed by the building of a packet
    cal_built,           \* calibration packets built so far
    cal_requests,        \* events that set the calibration-requested latch
    dump_intervals,      \* times the full-dump latch went from clear to set
    dumps,               \* full dumps enqueued so far
    stop_at,             \* rl.wait() calls returned when the stop signal was raised, -1 before
    rate_in,             \* inputs of the should_run call under study
    rate_out             \* results of should_run over the window so far

loopVars == << pc, loop_count, send_queue, param_recv_local, cal_seen, held >>
cacheVars == << servo_source, pilot_mode, filter_state, control_mode,
                attitude_source, connected, notified >>
producerVars == << switch_pilot_mode, controller_mode, trajectory_type >>
sharedVars == << param_recv, requested_params, requested_rc_calibration,
                 message_queue >>
storeVars == << control_parameters, heli_parameters, heartbeat_rate,
               rc_channel_rate, control_output_rate, driver_rates >>
ghostVars == << transport_log, warnings, waits, finished, faults, events,
                pushed, popped, drained, cal_requests, cal_built,
                cal_unserved,
                dump_intervals,
                dumps,
                stop_at >>
rateVars == << rate_in, rate_out >>

vars == << loopVars, cacheVars, producerVars, sharedVars, storeVars,
           ghostVars, rateVars >>

(***************************************************************************)
(* Enumerations used by the mode cache.  Each NUM_... value is the value    *)
(* the constructor stores.                                                   *)
(***************************************************************************)
AUTOPILOT_MODE == {"MODE_DIRECT_MANUAL", "MODE_SCALED_MANUAL",
                   "MODE_AUTOMATIC_CONTROL"}
PILOT_MODE == {"PILOT_MANUAL", "PILOT_AUTO"}
GX3_MODE == {"STARTUP", "INIT", "RUNNING", "ERROR"}
Controller_Mode == {"Mode_Attitude_Stabilization_PID",
                    "Mode_Position_Hold_PID", "Mode_Position_Hold_SBF"}
Trajectory_Type == {"Point_Trajectory", "Line_Trajectory",
                    "Circle_Trajectory"}
NUM_AUTOPILOT_MODES == "NUM_AUTOPILOT_MODES"
NUM_PILOT_MODES == "NUM_PILOT_MODES"
NUM_GX3_MODES == "NUM_GX3_MODES"
Num_Controller_Modes == "Num_Controller_Modes"

(***************************************************************************)
(* C integer division and remainder (truncation toward zero).               *)
(***************************************************************************)
Abs(x) == IF x < 0 THEN -x ELSE x
CDiv(a, b) == IF (a < 0) = (b < 0) THEN Abs(a) \div Abs(b)
              ELSE -(Abs(a) \div Abs(b))
CMod(a, b) == a - b * CDiv(a, b)

(***************************************************************************)
(* bool should_run(int stream_rate, int send_rate, int count)               *)
(***************************************************************************)
\* the right operand of % in should_run: send_rate / stream_rate
rate_divisor(stream_rate, base_rate) == CDiv(base_rate, stream_rate)

\* a rate above the base rate clamped to the base rate
should_run_clamped(stream_rate, base_rate, count) ==
    IF stream_rate = 0 THEN FALSE
    ELSE IF stream_rate > base_rate THEN TRUE
    ELSE CMod(count, CDiv(base_rate, stream_rate)) = 0

\* the period rounded up instead of down
should_run_period_up(stream_rate, base_rate, count) ==
    IF stream_rate = 0 \/ stream_rate > base_rate THEN FALSE
    ELSE CMod(count, CDiv(base_rate + stream_rate - 1, stream_rate)) = 0

\* firing one count late
should_run_offset(stream_rate, base_rate, count) ==
    IF stream_rate = 0 \/ stream_rate > base_rate THEN FALSE
    ELSE CMod(count, CDiv(base_rate, stream_rate)) = 1 % CDiv(base_rate, stream_rate)

should_run(stream_rate, base_rate, count) ==
    IF stream_rate = 0 \/ stream_rate > base_rate THEN FALSE
    ELSE CMod(count, CDiv(base_rate, stream_rate)) = 0


(***************************************************************************)
(* Packets.  A packet is what an encoder hands to the codec: its category,  *)
(* the arguments the encoder chose, and the iteration that enqueued it.     *)
(***************************************************************************)
NoPacket == [cat |-> "", iter |-> 0, count |-> 0, index |-> 0, id |-> "",
             text |-> << >>, severity |-> 0, status |-> << >>,
             tries |-> 0]   \* tries: earlier transport calls made with it

Packet(cat, iter) == [NoPacket EXCEPT !.cat = cat, !.iter = iter]

\* position of each category in the order the loop services the streams
Rank(cat) ==
    CASE cat = "heartbeat"   -> 1
      [] cat = "status"      -> 2
      [] cat = "param"       -> 3
      [] cat = "rc_raw"      -> 4
      [] cat = "rc_scaled"   -> 5
      [] cat = "effort"      -> 6
      [] cat = "reply"       -> 7
      [] cat = "calibration" -> 8
      [] cat = "driver"      -> 9
      [] cat = "console"     -> 10

(***************************************************************************)
(* Parameter stores: Control's parameters, then Helicopter's.               *)
(***************************************************************************)
ControlParams == << "c1", "c2", "c3", "c4" >>
HeliParams == << "h1", "h2", "h3", "h4" >>

(***************************************************************************)
(* void send_param(sendq)                                                   *)
(***************************************************************************)
\* indices counted from one
send_param_index_from_one(sendq, iter) ==
    LET plist == control_parameters \o heli_parameters
        num_params == Len(plist)
    IN  sendq \o [k \in 1..num_params |->
                    [Packet("param", iter) EXCEPT !.count = num_params,
                                                  !.index = k,
                                                  !.id = plist[k]]]

send_param(sendq, iter) ==
    LET plist == control_parameters \o heli_parameters
        num_params == Len(plist)
    IN  sendq \o [k \in 1..num_params |->
                    [Packet("param", iter) EXCEPT !.count = num_params,
                                                  !.index = k - 1,
                                                  !.id = plist[k]]]

(***************************************************************************)
(* One pass of the while loop of send_requested_params: the reply for the   *)
(* front of the FIFO.                                                       *)
(***************************************************************************)
requested_param_reply(front, iter) ==
    [Packet("reply", iter) EXCEPT !.count = REPLY_COUNT,
                                  !.index = REPLY_INDEX,
                                  !.id = front]

(***************************************************************************)
(* void send_status(sendq): the remapping of the cached modes.              *)
(***************************************************************************)
UNKNOWN_CODE == "255"

qgc_servo_source(s) ==
    CASE s = "MODE_DIRECT_MANUAL"     -> "UALBERTA_MODE_MANUAL_DIRECT"
      [] s = "MODE_SCALED_MANUAL"     -> "UALBERTA_MODE_MANUAL_SCALED"
      [] s = "MODE_AUTOMATIC_CONTROL" -> "UALBERTA_MODE_AUTOMATIC_CONTROL"
      [] OTHER                        -> UNKNOWN_CODE

qgc_pilot_mode(p) ==
    CASE p = "PILOT_MANUAL" -> "UALBERTA_PILOT_MANUAL"
      [] p = "PILOT_AUTO"   -> "UALBERTA_PILOT_AUTO"
      [] OTHER              -> UNKNOWN_CODE

qgc_trajectory(t) ==
    CASE t = "Point_Trajectory"  -> "UALBERTA_POINT"
      [] t = "Line_Trajectory"   -> "UALBERTA_LINE"
      [] t = "Circle_Trajectory" -> "UALBERTA_CIRCLE"
      [] OTHER                   -> UNKNOWN_CODE

\* a default label that falls into the first case
qgc_filter_state_aliased(f) ==
    CASE f = "STARTUP" -> "UALBERTA_GX3_STARTUP"
      [] f = "INIT"    -> "UALBERTA_GX3_INIT"
      [] f = "RUNNING" -> "UALBERTA_GX3_RUNNING_VALID"
      [] f = "ERROR"   -> "UALBERTA_GX3_RUNNING_ERROR"
      [] OTHER         -> "UALBERTA_GX3_STARTUP"

qgc_filter_state(f) ==
    CASE f = "STARTUP" -> "UALBERTA_GX3_STARTUP"
      [] f = "INIT"    -> "UALBERTA_GX3_INIT"
      [] f = "RUNNING" -> "UALBERTA_GX3_RUNNING_VALID"
      [] f = "ERROR"   -> "UALBERTA_GX3_RUNNING_ERROR"
      [] OTHER         -> UNKNOWN_CODE

qgc_control_mode(c) ==
    CASE c = "Mode_Attitude_Stabilization_PID" -> "UALBERTA_ATTITUDE_PID"
      [] c = "Mode_Position_Hold_PID"          -> "UALBERTA_TRANSLATION_PID"
      [] c = "Mode_Position_Hold_SBF"          -> "UALBERTA_TRANSLATION_SBF"
      [] OTHER                                 -> UNKNOWN_CODE

qgc_attitude_source(a) == IF a THEN "UALBERTA_NAV_FILTER" ELSE "UALBERTA_AHRS"

\* the test made on the cached control mode
status_pilot_mode_by_control_mode ==
    IF control_mode = Num_Controller_Modes THEN switch_pilot_mode
    ELSE pilot_mode

\* the pilot mode send_status reports: the cached one, or the producer's
\* when the cache holds NUM_PILOT_MODES
status_pilot_mode ==
    IF pilot_mode = NUM_PILOT_MODES THEN switch_pilot_mode ELSE pilot_mode

send_status(sendq, iter) ==
    Append(sendq,
           [Packet("status", iter) EXCEPT !.status =
               << qgc_servo_source(servo_source),
                  qgc_filter_state(filter_state),
                  qgc_pilot_mode(status_pilot_mode),
                  qgc_control_mode(control_mode),
                  qgc_attitude_source(attitude_source),
                  qgc_trajectory(trajectory_type) >>])

send_heartbeat(sendq, iter) == Append(sendq, Packet("heartbeat", iter))

send_rc_channels(sendq, iter) ==
    Append(Append(sendq, Packet("rc_raw", iter)), Packet("rc_scaled", iter))

send_control_effort(sendq, iter) == Append(sendq, Packet("effort", iter))

send_rc_calibration(sendq, iter) == Append(sendq, Packet("calibration", iter))

(***************************************************************************)
(* void send_console_message(message, sendq)                                *)
(***************************************************************************)
NUL == "NUL"
Critical == << "C", "r", "i", "t", "i", "c", "a", "l" >>

\* std::string::resize(n): truncate, or pad with NUL characters
Resize(str, n) ==
    [i \in 1..n |-> IF i <= Len(str) THEN str[i] ELSE NUL]

\* c_str() as the codec reads it: the characters before the first NUL
CStr(str) ==
    LET nuls == {i \in 1..Len(str) : str[i] = NUL}
        stop == IF nuls = {} THEN Len(str) + 1
                ELSE CHOOSE i \in nuls : \A j \in nuls : i <= j
    IN  SubSeq(str, 1, stop - 1)

starts_with(str, prefix) ==
    /\ Len(str) >= Len(prefix)
    /\ SubSeq(str, 1, Len(prefix)) = prefix

\* a marker test that ignores the case of the first letter
send_console_message_any_case(message, sendq, iter) ==
    LET console == Resize(message, CONSOLE_WIDTH)
        lower(str) == [i \in 1..Len(str) |->
                         IF str[i] = "C" THEN "c" ELSE str[i]]
    IN  Append(sendq,
               [Packet("console", iter) EXCEPT
                   !.severity = IF starts_with(lower(console), lower(Critical))
                                THEN SEVERITY_CRITICAL ELSE 0,
                   !.text = CStr(console)])

send_console_message(message, sendq, iter) ==
    LET console == Resize(message, CONSOLE_WIDTH)
    IN  Append(sendq,
               [Packet("console", iter) EXCEPT
                   !.severity = IF starts_with(console, Critical)
                                THEN SEVERITY_CRITICAL ELSE 0,
                   !.text = CStr(console)])

MsgCritical == Critical \o << ":", "o" >>
MsgWarning == << "W", "a", "r", "n", ":", "b" >>
Messages == {MsgCritical, MsgWarning}

\* texts around the marker: another case, the marker further in, a proper
\* prefix of the marker, and a text longer than the wire field
MsgLower == << "c", "r", "i", "t", "i", "c", "a", "l", ":", "o" >>
MsgInner == << "W", ":" >> \o Critical
MsgShort == << "C", "r", "i", "t", "i", "c" >>
MsgLong == Critical \o [i \in 1..CONSOLE_WIDTH |-> "x"]
ConsoleTexts == Messages \cup {MsgLower, MsgInner, MsgShort, MsgLong}


(***************************************************************************)
(* Initial state: the object as its constructor leaves it, send() not yet   *)
(* started.                                                                  *)
(***************************************************************************)
Prefix(seq, n) == SubSeq(seq, 1, n)

\* the rest of the object, and send() at its first statement
InitSender ==
    /\ pc = "init_pilot"
    /\ loop_count = 0
    /\ send_queue = << >>
    /\ param_recv_local = FALSE
    /\ cal_seen = FALSE
    /\ held = {}
    /\ connected = FALSE
    /\ notified = {}
    /\ message_queue = << >>
    /\ transport_log = << >>
    /\ warnings = 0
    /\ waits = 0
    /\ finished = 0
    /\ faults = 0
    /\ events = 0
    /\ pushed = << >>
    /\ popped = << >>
    /\ drained = << >>
    /\ stop_at = -1

\* the mode cache as the constructor's initialiser list leaves it
InitModeCache ==
    /\ servo_source = NUM_AUTOPILOT_MODES
    /\ pilot_mode = NUM_PILOT_MODES
    /\ filter_state = NUM_GX3_MODES
    /\ control_mode = Num_Controller_Modes
    /\ attitude_source = TRUE

InitObject ==
    /\ InitModeCache
    /\ InitSender

\* the modes the producers start in; they change them before or after
\* send() starts
InitProducers ==
    /\ switch_pilot_mode = "PILOT_MANUAL"
    /\ controller_mode = "Mode_Attitude_Stabilization_PID"
    /\ trajectory_type = "Point_Trajectory"

\* no request has reached qgc before send() starts
InitNoRequests ==
    /\ param_recv = FALSE
    /\ requested_params = << >>
    /\ requested_rc_calibration = FALSE
    /\ cal_requests = 0
    /\ dump_intervals = 0
    /\ dumps = 0
    /\ cal_built = 0
    /\ cal_unserved = FALSE

\* the receiver has latched one request of each kind before send() starts
InitRequested ==
    /\ param_recv = TRUE
    /\ requested_params = << ControlParams[1] >>
    /\ requested_rc_calibration = TRUE
    /\ cal_requests = 1
    /\ dump_intervals = 1
    /\ dumps = 0
    /\ cal_built = 0
    /\ cal_unserved = TRUE

RateValues == {0, send_rate \div 2, send_rate}

InitStores ==
    /\ control_parameters = Prefix(ControlParams, MaxParams)
    /\ heli_parameters = Prefix(HeliParams, MaxParams)

\* every configuration of the scheduled streams
InitRates ==
    /\ heartbeat_rate \in RateValues
    /\ rc_channel_rate \in RateValues
    /\ control_output_rate \in RateValues
    /\ driver_rates \in {[k \in 1..n |-> send_rate] : n \in 0..MaxDriverMsgs}

\* one configuration in which every stream runs
InitRatesFixed ==
    /\ heartbeat_rate = send_rate
    /\ rc_channel_rate = send_rate \div 2
    /\ control_output_rate = send_rate \div 2
    /\ driver_rates = [k \in 1..MaxDriverMsgs |-> send_rate]

(***************************************************************************)
(* send(), lines 106-126: the initial reads and the subscriptions.          *)
(***************************************************************************)
\* a start of send() that leaves the cached pilot mode as constructed
SkipInitialPilotMode ==
    /\ pc = "init_pilot"
    /\ pc' = "init_control"
    /\ UNCHANGED << loop_count, send_queue, param_recv_local, cal_seen, held,
                    cacheVars, producerVars, sharedVars, storeVars, ghostVars,
                    rateVars >>

\* pilot_mode = servo_switch::getInstance()->get_pilot_mode();
GetInitialPilotMode ==
    /\ pc = "init_pilot"
    /\ pilot_mode' = switch_pilot_mode
    /\ pc' = "init_control"
    /\ UNCHANGED << loop_count, send_queue, param_recv_local, cal_seen, held,
                    servo_source, filter_state, control_mode, attitude_source,
                    connected, notified, producerVars, sharedVars, storeVars,
                    ghostVars, rateVars >>

\* control_mode = Control::getInstance()->get_controller_mode();
GetInitialControlMode ==
    /\ pc = "init_control"
    /\ control_mode' = controller_mode
    /\ pc' = "connect"
    /\ UNCHANGED << loop_count, send_queue, param_recv_local, cal_seen, held,
                    servo_source, pilot_mode, filter_state, attitude_source,
                    connected, notified, producerVars, sharedVars, storeVars,
                    ghostVars, rateVars >>

\* the scoped_connections of lines 113-126
ConnectSignals ==
    /\ pc = "connect"
    /\ connected' = TRUE
    /\ pc' = "wait"
    /\ UNCHANGED << loop_count, send_queue, param_recv_local, cal_seen, held,
                    servo_source, pilot_mode, filter_state, control_mode,
                    attitude_source, notified, producerVars, sharedVars,
                    storeVars, ghostVars, rateVars >>

(***************************************************************************)
(* send(), lines 128-209: one iteration of while(true).                     *)
(***************************************************************************)
\* rl.wait()
Wait ==
    /\ pc = "wait"
    /\ loop_count < MaxIter
    /\ waits' = waits + 1
    /\ pc' = "heartbeat"
    /\ UNCHANGED << loop_count, send_queue, param_recv_local, cal_seen, held,
                    cacheVars, producerVars, sharedVars, storeVars,
                    transport_log, warnings, finished, faults, events, pushed,
                    popped, drained, rateVars,
                    cal_requests,
                    cal_built,
                    cal_unserved,
                    dump_intervals,
                    dumps,
                    stop_at >>

Heartbeat ==
    /\ pc = "heartbeat"
    /\ send_queue' =
            IF should_run(heartbeat_rate, send_rate, loop_count)
            THEN send_status(send_heartbeat(send_queue, loop_count),
                             loop_count)
            ELSE send_queue
    /\ pc' = "param_lock"
    /\ UNCHANGED << loop_count, param_recv_local, cal_seen, held, cacheVars,
                    producerVars, sharedVars, storeVars, ghostVars, rateVars >>

\* qgc->param_recv_lock.lock()
ParamRecvLock ==
    /\ pc = "param_lock"
    /\ held' = held \cup {"param_recv_lock"}
    /\ pc' = "param_read"
    /\ UNCHANGED << loop_count, send_queue, param_recv_local, cal_seen,
                    cacheVars, producerVars, sharedVars, storeVars, ghostVars,
                    rateVars >>

\* a read that leaves the latch as it was found
ParamRecvReadOnly ==
    /\ pc = "param_read"
    /\ param_recv_local' = param_recv
    /\ held' = held \ {"param_recv_lock"}
    /\ pc' = "param_send"
    /\ UNCHANGED << loop_count, send_queue, cal_seen, cacheVars, producerVars,
                    sharedVars, storeVars, ghostVars, rateVars >>

\* bool param_recv = qgc->param_recv; qgc->param_recv = false; unlock()
ParamRecvRead ==
    /\ pc = "param_read"
    /\ param_recv_local' = param_recv
    /\ param_recv' = FALSE
    /\ held' = held \ {"param_recv_lock"}
    /\ pc' = "param_send"
    /\ UNCHANGED << loop_count, send_queue, cal_seen, cacheVars, producerVars,
                    requested_params, requested_rc_calibration, message_queue,
                    storeVars, ghostVars, rateVars >>

\* if (param_recv) send_param(send_queue);
SendParam ==
    /\ pc = "param_send"
    /\ send_queue' = IF param_recv_local THEN send_param(send_queue, loop_count)
                     ELSE send_queue
    /\ dumps' = IF param_recv_local THEN dumps + 1 ELSE dumps
    /\ pc' = "rc"
    /\ UNCHANGED << loop_count, param_recv_local, cal_seen, held, cacheVars,
                    producerVars, sharedVars, storeVars, transport_log,
                    warnings, waits, finished, faults, events, pushed, popped,
                    drained, cal_requests, cal_built, cal_unserved,
                    dump_intervals, rateVars,
                    stop_at >>

RcChannels ==
    /\ pc = "rc"
    /\ send_queue' =
            IF should_run(rc_channel_rate, send_rate, loop_count)
            THEN send_rc_channels(send_queue, loop_count)
            ELSE send_queue
    /\ pc' = "effort"
    /\ UNCHANGED << loop_count, param_recv_local, cal_seen, held, cacheVars,
                    producerVars, sharedVars, storeVars, ghostVars, rateVars >>

ControlEffort ==
    /\ pc = "effort"
    /\ send_queue' =
            IF should_run(control_output_rate, send_rate, loop_count)
            THEN send_control_effort(send_queue, loop_count)
            ELSE send_queue
    /\ pc' = "req_lock"
    /\ UNCHANGED << loop_count, param_recv_local, cal_seen, held, cacheVars,
                    producerVars, sharedVars, storeVars, ghostVars, rateVars >>

\* qgc->requested_params_lock.lock()
RequestedParamsLock ==
    /\ pc = "req_lock"
    /\ held' = held \cup {"requested_params_lock"}
    /\ drained' = requested_params
    /\ pc' = "req_check"
    /\ UNCHANGED << loop_count, send_queue, param_recv_local, cal_seen,
                    cacheVars, producerVars, sharedVars, storeVars,
                    transport_log, warnings, waits, finished, faults, events, pushed,
                    popped, rateVars,
                    cal_requests,
                    cal_built,
                    cal_unserved,
                    dump_intervals,
                    dumps,
                    stop_at >>

\* if (!qgc->requested_params.empty()) send_requested_params(send_queue);
RequestedParamsCheck ==
    /\ pc = "req_check"
    /\ pc' = IF requested_params # << >> THEN "req_drain" ELSE "req_unlock"
    /\ UNCHANGED << loop_count, send_queue, param_recv_local, cal_seen, held,
                    cacheVars, producerVars, sharedVars, storeVars, ghostVars,
                    rateVars >>

\* a bug a drain is prone to: answer the front entry only
SendRequestedParamsFrontOnly ==
    /\ pc = "req_drain"
    /\ send_queue' = Append(send_queue,
                        requested_param_reply(Head(requested_params), loop_count))
    /\ requested_params' = Tail(requested_params)
    /\ pc' = "req_unlock"
    /\ UNCHANGED << loop_count, param_recv_local, cal_seen, held, cacheVars,
                    producerVars, param_recv, requested_rc_calibration,
                    message_queue, storeVars, ghostVars, rateVars >>

\* send_requested_params: one evaluation of while(!requested_params.empty())
\* and, when it holds, one pass of the body
SendRequestedParams ==
    /\ pc = "req_drain"
    /\ IF requested_params # << >>
       THEN /\ send_queue' = Append(send_queue,
                     requested_param_reply(Head(requested_params), loop_count))
            /\ requested_params' = Tail(requested_params)
            /\ pc' = "req_drain"
       ELSE /\ pc' = "req_unlock"
            /\ UNCHANGED << send_queue, requested_params,
                    cal_requests,
                    cal_built,
                    cal_unserved,
                    dump_intervals,
                    dumps,
                    stop_at >>
    /\ UNCHANGED << loop_count, param_recv_local, cal_seen, held, cacheVars,
                    producerVars, param_recv, requested_rc_calibration,
                    message_queue, storeVars, ghostVars, rateVars >>

\* a path that leaves the section without the unlock
RequestedParamsUnlockSkipped ==
    /\ pc = "req_unlock"
    /\ pc' = "cal_check"
    /\ UNCHANGED << loop_count, send_queue, param_recv_local, cal_seen, held,
                    cacheVars, producerVars, sharedVars, storeVars, ghostVars,
                    rateVars >>

\* qgc->requested_params_lock.unlock()
RequestedParamsUnlock ==
    /\ pc = "req_unlock"
    /\ held' = held \ {"requested_params_lock"}
    /\ pc' = "cal_check"
    /\ UNCHANGED << loop_count, send_queue, param_recv_local, cal_seen,
                    cacheVars, producerVars, sharedVars, storeVars, ghostVars,
                    rateVars >>

\* if (qgc->get_requested_rc_calibration())
CalibrationCheck ==
    /\ pc = "cal_check"
    /\ cal_seen' = requested_rc_calibration
    /\ pc' = IF requested_rc_calibration THEN "cal_send" ELSE "drivers"
    /\ UNCHANGED << loop_count, send_queue, param_recv_local, held, cacheVars,
                    producerVars, sharedVars, storeVars, ghostVars, rateVars >>

SendRcCalibration ==
    /\ pc = "cal_send"
    /\ send_queue' = send_rc_calibration(send_queue, loop_count)
    /\ cal_built' = cal_built + 1
    /\ cal_unserved' = FALSE
    /\ pc' = "cal_clear"
    /\ UNCHANGED << loop_count, param_recv_local, cal_seen, held, cacheVars,
                    producerVars, sharedVars, storeVars, transport_log,
                    warnings, waits, finished, faults, events, pushed, popped,
                    drained, cal_requests, rateVars,
                    dump_intervals,
                    dumps,
                    stop_at >>

\* a level-triggered stream: the latch is left as it was found
ClearRcCalibrationSkipped ==
    /\ pc = "cal_clear"
    /\ pc' = "drivers"
    /\ UNCHANGED << loop_count, send_queue, param_recv_local, cal_seen, held,
                    cacheVars, producerVars, sharedVars, storeVars, ghostVars,
                    rateVars >>

\* qgc->clear_requested_rc_calibration()
ClearRcCalibration ==
    /\ pc = "cal_clear"
    /\ requested_rc_calibration' = FALSE
    /\ pc' = "drivers"
    /\ UNCHANGED << loop_count, send_queue, param_recv_local, cal_seen, held,
                    cacheVars, producerVars, param_recv, requested_params,
                    message_queue, storeVars, ghostVars, rateVars >>

\* the messages the drivers add in one iteration: each driver schedules
\* itself from (send_rate, loop_count) and adds one message when it runs
driver_messages(iter) ==
    LET running == SelectSeq([k \in 1..Len(driver_rates) |-> k],
                     LAMBDA k : should_run(driver_rates[k], send_rate, iter))
    IN  [j \in 1..Len(running) |->
            [Packet("driver", iter) EXCEPT !.index = running[j]]]

\* for (Driver* driver : Driver::getDrivers()) ... send_queue->push(buf)
Drivers ==
    /\ pc = "drivers"
    /\ send_queue' = send_queue \o driver_messages(loop_count)
    /\ pc' = "console_check"
    /\ UNCHANGED << loop_count, param_recv_local, cal_seen, held, cacheVars,
                    producerVars, sharedVars, storeVars, ghostVars, rateVars >>

\* a pop made without the emptiness check
ConsoleCheckSkipped ==
    /\ pc = "console_check"
    /\ pc' = "console_pop"
    /\ UNCHANGED << loop_count, send_queue, param_recv_local, cal_seen, held,
                    cacheVars, producerVars, sharedVars, storeVars, ghostVars,
                    rateVars >>

\* if (!message_queue_empty())
ConsoleCheck ==
    /\ pc = "console_check"
    /\ pc' = IF message_queue # << >> THEN "console_pop" ELSE "flush"
    /\ UNCHANGED << loop_count, send_queue, param_recv_local, cal_seen, held,
                    cacheVars, producerVars, sharedVars, storeVars, ghostVars,
                    rateVars >>

\* a mailbox that hands out its newest entry
ConsolePopNewest ==
    /\ pc = "console_pop"
    /\ message_queue # << >>
    /\ LET last == message_queue[Len(message_queue)]
       IN  /\ send_queue' = send_console_message(last, send_queue, loop_count)
           /\ message_queue' = Prefix(message_queue, Len(message_queue) - 1)
           /\ popped' = Append(popped, [text |-> last, iter |-> loop_count])
    /\ pc' = "flush"
    /\ UNCHANGED << loop_count, param_recv_local, cal_seen, held, cacheVars,
                    producerVars, param_recv, requested_params,
                    requested_rc_calibration, storeVars, transport_log,
                    warnings, waits, finished, faults, events, pushed,
                    drained, rateVars,
                    cal_requests,
                    cal_built,
                    cal_unserved,
                    dump_intervals,
                    dumps,
                    stop_at >>

\* send_console_message(message_queue_pop(), send_queue)
ConsolePop ==
    /\ pc = "console_pop"
    /\ message_queue # << >>
    /\ send_queue' = send_console_message(Head(message_queue), send_queue,
                                          loop_count)
    /\ message_queue' = Tail(message_queue)
    /\ popped' = Append(popped, [text |-> Head(message_queue),
                                 iter |-> loop_count])
    /\ pc' = "flush"
    /\ UNCHANGED << loop_count, param_recv_local, cal_seen, held, cacheVars,
                    producerVars, param_recv, requested_params,
                    requested_rc_calibration, storeVars, transport_log,
                    warnings, waits, finished, faults, events, pushed, drained,
                    rateVars,
                    cal_requests,
                    cal_built,
                    cal_unserved,
                    dump_intervals,
                    dumps,
                    stop_at >>

\* one pass of while (!send_queue->empty()) { send_to(front); pop(); }
\* inside the try block: send_to returns, or throws system_error
FlushSend ==
    /\ pc = "flush"
    /\ send_queue # << >>
    /\ \/ /\ transport_log' = Append(transport_log,
                                [pkt |-> Head(send_queue), ok |-> TRUE])
          /\ send_queue' = Tail(send_queue)
          /\ pc' = "flush"
          /\ UNCHANGED << faults, events,
                    cal_requests,
                    cal_built,
                    cal_unserved,
                    dump_intervals,
                    dumps,
                    stop_at >>
       \/ /\ events < MaxEvents
          /\ transport_log' = Append(transport_log,
                                [pkt |-> Head(send_queue), ok |-> FALSE])
          /\ send_queue' = << [Head(send_queue) EXCEPT !.tries = @ + 1] >>
                              \o Tail(send_queue)
          /\ faults' = faults + 1
          /\ events' = events + 1
          /\ pc' = "catch"
    /\ UNCHANGED << loop_count, param_recv_local, cal_seen, held, cacheVars,
                    producerVars, sharedVars, storeVars, warnings, waits, finished,
                    pushed, popped, drained, rateVars,
                    cal_requests,
                    cal_built,
                    cal_unserved,
                    dump_intervals,
                    dumps,
                    stop_at >>

\* the while condition fails: the try block ends
FlushDone ==
    /\ pc = "flush"
    /\ send_queue = << >>
    /\ pc' = "incr"
    /\ UNCHANGED << loop_count, send_queue, param_recv_local, cal_seen, held,
                    cacheVars, producerVars, sharedVars, storeVars, ghostVars,
                    rateVars >>

\* positions of send() between this iteration's mailbox check and the
\* increment of loop_count
AfterConsoleCheck == {"console_pop", "flush", "catch", "incr"}

\* the iteration whose mailbox check is the first to follow
NextCheck == IF pc \in AfterConsoleCheck THEN loop_count + 1 ELSE loop_count

\* the text of a transport-fault report, e.what()
MsgFault == << "W", "a", "r", "n", ":", "e" >>

\* Debug::warningSignal(text): the mailbox after the slots have run
warningSignal(text, mailbox) ==
    IF connected THEN Append(mailbox, text) ELSE mailbox

\* a handler that does not hold the fault: send() ends
CatchFaultEscapes ==
    /\ pc = "catch"
    /\ pc' = "terminated"
    /\ UNCHANGED << loop_count, send_queue, param_recv_local, cal_seen, held,
                    cacheVars, producerVars, sharedVars, storeVars, ghostVars,
                    rateVars >>

\* catch (boost::system::system_error e) { qgc->warning() << e.what(); }
\* The report is a warning of the Debug facility; warning_connection has
\* bound Debug::warningSignal to message_queue_push, which runs in the thread
\* that emits the signal.
CatchFault ==
    /\ pc = "catch"
    /\ warnings' = warnings + 1
    /\ message_queue' = warningSignal(MsgFault, message_queue)
    /\ pushed' = IF connected
                 THEN Append(pushed, [text |-> MsgFault, round |-> NextCheck])
                 ELSE pushed
    /\ pc' = "incr"
    /\ UNCHANGED << loop_count, send_queue, param_recv_local, cal_seen, held,
                    cacheVars, producerVars, param_recv, requested_params,
                    requested_rc_calibration, storeVars, transport_log, waits,
                    finished, faults, events, popped, drained, cal_requests,
                    cal_built, cal_unserved, dump_intervals, dumps, rateVars,
                    stop_at >>

\* loop_count++
Increment ==
    /\ pc = "incr"
    /\ loop_count' = loop_count + 1
    /\ pc' = "finish"
    /\ UNCHANGED << send_queue, param_recv_local, cal_seen, held, cacheVars,
                    producerVars, sharedVars, storeVars, ghostVars, rateVars >>

\* rl.finishedCriticalSection()
FinishedCriticalSection ==
    /\ pc = "finish"
    /\ finished' = finished + 1
    /\ transport_log' = << >>
    /\ pc' = "wait"
    /\ UNCHANGED << loop_count, send_queue, param_recv_local, cal_seen, held,
                    cacheVars, producerVars, sharedVars, storeVars, warnings, waits,
                    faults, events, pushed, popped, drained, rateVars,
                    cal_requests,
                    cal_built,
                    cal_unserved,
                    dump_intervals,
                    dumps,
                    stop_at >>

Dispatch ==
    \/ GetInitialPilotMode \/ GetInitialControlMode \/ ConnectSignals
    \/ Wait \/ Heartbeat \/ ParamRecvLock \/ ParamRecvRead \/ SendParam
    \/ RcChannels \/ ControlEffort
    \/ RequestedParamsLock \/ RequestedParamsCheck \/ SendRequestedParams
    \/ RequestedParamsUnlock
    \/ CalibrationCheck \/ SendRcCalibration \/ ClearRcCalibration
    \/ Drivers \/ ConsoleCheck \/ ConsolePop
    \/ FlushSend \/ FlushDone \/ CatchFault
    \/ Increment \/ FinishedCriticalSection

(***************************************************************************)
(* Producer threads.  The mode producers emit their change signal from     *)
(* their own thread; a connected slot runs the cache's setter.              *)
(***************************************************************************)
\* servo_switch: pilot_mode_changed -> set_pilot_mode
PilotModeChanged ==
    /\ events < MaxEvents
    /\ \E v \in PILOT_MODE \ {switch_pilot_mode} :
         /\ switch_pilot_mode' = v
         /\ IF connected
            THEN /\ pilot_mode' = v
                 /\ notified' = notified \cup {"pilot_mode"}
            ELSE UNCHANGED << pilot_mode, notified,
                    cal_requests,
                    cal_built,
                    cal_unserved,
                    dump_intervals,
                    dumps,
                    stop_at >>
    /\ events' = events + 1
    /\ UNCHANGED << loopVars, servo_source, filter_state, control_mode,
                    attitude_source, connected, controller_mode, trajectory_type,
                    sharedVars,
                    storeVars, transport_log, warnings, waits, finished, faults,
                    pushed, popped, drained, rateVars,
                    cal_requests,
                    cal_built,
                    cal_unserved,
                    dump_intervals,
                    dumps,
                    stop_at >>

\* Control: mode_changed -> set_control_mode
ControlModeChanged ==
    /\ events < MaxEvents
    /\ \E v \in Controller_Mode \ {controller_mode} :
         /\ controller_mode' = v
         /\ IF connected
            THEN /\ control_mode' = v
                 /\ notified' = notified \cup {"control_mode"}
            ELSE UNCHANGED << control_mode, notified,
                    cal_requests,
                    cal_built,
                    cal_unserved,
                    dump_intervals,
                    dumps,
                    stop_at >>
    /\ events' = events + 1
    /\ UNCHANGED << loopVars, servo_source, pilot_mode, filter_state,
                    attitude_source, connected, switch_pilot_mode, trajectory_type,
                    sharedVars,
                    storeVars, transport_log, warnings, waits, finished, faults,
                    pushed, popped, drained, rateVars,
                    cal_requests,
                    cal_built,
                    cal_unserved,
                    dump_intervals,
                    dumps,
                    stop_at >>

\* MainApp::mode_changed -> set_servo_source
ServoSourceChanged ==
    /\ events < MaxEvents
    /\ connected
    /\ \E v \in AUTOPILOT_MODE \ {servo_source} : servo_source' = v
    /\ notified' = notified \cup {"servo_source"}
    /\ events' = events + 1
    /\ UNCHANGED << loopVars, pilot_mode, filter_state, control_mode,
                    attitude_source, connected, producerVars, sharedVars,
                    storeVars, transport_log, warnings, waits, finished, faults,
                    pushed, popped, drained, rateVars,
                    cal_requests,
                    cal_built,
                    cal_unserved,
                    dump_intervals,
                    dumps,
                    stop_at >>

\* IMU: gx3_mode_changed -> set_filter_state
FilterStateChanged ==
    /\ events < MaxEvents
    /\ connected
    /\ \E v \in GX3_MODE \ {filter_state} : filter_state' = v
    /\ notified' = notified \cup {"filter_state"}
    /\ events' = events + 1
    /\ UNCHANGED << loopVars, servo_source, pilot_mode, control_mode,
                    attitude_source, connected, producerVars, sharedVars,
                    storeVars, transport_log, warnings, waits, finished, faults,
                    pushed, popped, drained, rateVars,
                    cal_requests,
                    cal_built,
                    cal_unserved,
                    dump_intervals,
                    dumps,
                    stop_at >>

\* QGCLink: attitude_source -> set_attitude_source
AttitudeSourceChanged ==
    /\ events < MaxEvents
    /\ connected
    /\ attitude_source' = ~attitude_source
    /\ notified' = notified \cup {"attitude_source"}
    /\ events' = events + 1
    /\ UNCHANGED << loopVars, servo_source, pilot_mode, filter_state,
                    control_mode, connected, producerVars, sharedVars,
                    storeVars, transport_log, warnings, waits, finished, faults,
                    pushed, popped, drained, rateVars,
                    cal_requests,
                    cal_built,
                    cal_unserved,
                    dump_intervals,
                    dumps,
                    stop_at >>

\* the receiver sets the full-dump latch under param_recv_lock
SetParamRecv ==
    /\ events < MaxEvents
    /\ "param_recv_lock" \notin held
    /\ param_recv' = TRUE
    /\ dump_intervals' = IF param_recv THEN dump_intervals
                         ELSE dump_intervals + 1
    /\ events' = events + 1
    /\ UNCHANGED << loopVars, cacheVars, producerVars, requested_params,
                    requested_rc_calibration, message_queue, storeVars,
                    transport_log, warnings, waits, finished, faults, pushed,
                    popped, drained, cal_requests, cal_built, cal_unserved,
                    dumps, rateVars,
                    stop_at >>

\* the receiver queues a single-parameter request under requested_params_lock
PushRequestedParam ==
    /\ events < MaxEvents
    /\ "requested_params_lock" \notin held
    /\ \E p \in {ControlParams[1], HeliParams[1]} :
         requested_params' = Append(requested_params, p)
    /\ events' = events + 1
    /\ UNCHANGED << loopVars, cacheVars, producerVars, param_recv,
                    requested_rc_calibration, message_queue, storeVars,
                    transport_log, warnings, waits, finished, faults, pushed, popped,
                    drained, rateVars,
                    cal_requests,
                    cal_built,
                    cal_unserved,
                    dump_intervals,
                    dumps,
                    stop_at >>

\* the receiver sets the calibration-requested latch
RequestRcCalibration ==
    /\ events < MaxEvents
    /\ requested_rc_calibration' = TRUE
    /\ cal_requests' = cal_requests + 1
    /\ cal_unserved' = TRUE
    /\ events' = events + 1
    /\ UNCHANGED << loopVars, cacheVars, producerVars, param_recv,
                    requested_params, message_queue, storeVars, transport_log,
                    warnings, waits, finished, faults, pushed, popped, drained,
                    cal_built, rateVars,
                    dump_intervals,
                    dumps,
                    stop_at >>

\* Debug::warningSignal / criticalSignal -> message_queue_push(text)
message_queue_push_text(text) ==
    /\ events < MaxEvents
    /\ connected
    /\ message_queue' = Append(message_queue, text)
    /\ pushed' = Append(pushed, [text |-> text, round |-> NextCheck])
    /\ events' = events + 1
    /\ UNCHANGED << loopVars, cacheVars, producerVars, param_recv,
                    requested_params, requested_rc_calibration, storeVars,
                    transport_log, warnings, waits, finished, faults, popped,
                    drained, cal_requests, cal_built, cal_unserved, rateVars,
                    dump_intervals,
                    dumps,
                    stop_at >>

message_queue_push == \E text \in Messages : message_queue_push_text(text)

\* the same signals carrying any of the texts of ConsoleTexts
ConsoleTextPush == \E text \in ConsoleTexts : message_queue_push_text(text)

\* the process is asked to shut down (MainApp::terminate)
Terminate ==
    /\ events < MaxEvents
    /\ stop_at = -1
    /\ stop_at' = waits
    /\ events' = events + 1
    /\ UNCHANGED << loopVars, cacheVars, producerVars, sharedVars, storeVars,
                    transport_log, warnings, waits, finished, faults, pushed,
                    popped, drained, cal_requests, cal_built, cal_unserved,
                    dump_intervals, dumps, rateVars >>

ModeProducers ==
    \/ PilotModeChanged \/ ControlModeChanged \/ ServoSourceChanged
    \/ FilterStateChanged \/ AttitudeSourceChanged

RequestProducers ==
    \/ SetParamRecv \/ PushRequestedParam \/ RequestRcCalibration

(***************************************************************************)
(* Spec: the dispatch loop with every producer thread.                      *)
(***************************************************************************)
NoRateStudy ==
    /\ rate_in = [stream_rate |-> 0, base_rate |-> send_rate]
    /\ rate_out = << >>

Init ==
    /\ InitObject /\ InitProducers /\ InitNoRequests /\ InitStores
    /\ InitRates /\ NoRateStudy

Next == Dispatch \/ ModeProducers \/ RequestProducers \/ message_queue_push

Spec == Init /\ [][Next]_vars

(***************************************************************************)
(* SpecStreams: the loop under every stream configuration, requests        *)
(* latched before it starts, and the console producers.                     *)
(***************************************************************************)
InitStreams ==
    /\ InitObject /\ InitProducers /\ InitRequested /\ InitStores
    /\ InitRates /\ NoRateStudy

NextConsole == Dispatch \/ message_queue_push

SpecStreams == InitStreams /\ [][NextConsole]_vars

(***************************************************************************)
(* SpecConsole: the loop with every stream running and the console         *)
(* producers.                                                                *)
(***************************************************************************)
InitConsole ==
    /\ InitObject /\ InitProducers /\ InitRequested /\ InitStores
    /\ InitRatesFixed /\ NoRateStudy

SpecConsole == InitConsole /\ [][NextConsole]_vars

(***************************************************************************)
(* SpecModes: the loop with the mode producers.                             *)
(***************************************************************************)
NextModes == Dispatch \/ ModeProducers \/ message_queue_push

SpecModes == InitConsole /\ [][NextModes]_vars

(***************************************************************************)
(* SpecRequests: the loop with the receiver's requests.                     *)
(***************************************************************************)
InitNoRequest ==
    /\ InitObject /\ InitProducers /\ InitNoRequests /\ InitStores
    /\ InitRatesFixed /\ NoRateStudy

NextRequests == Dispatch \/ RequestProducers \/ message_queue_push

SpecRequests == InitNoRequest /\ [][NextRequests]_vars

(***************************************************************************)
(* SpecParam: the loop with a full dump requested, over parameter stores   *)
(* of every size.                                                            *)
(***************************************************************************)
InitParam ==
    /\ InitObject /\ InitProducers /\ InitRequested /\ InitRatesFixed
    /\ NoRateStudy
    /\ \E a \in 0..MaxDumpParams :
         control_parameters = Prefix(ControlParams, a)
    /\ \E b \in 0..MaxDumpParams : heli_parameters = Prefix(HeliParams, b)

SpecParam == InitParam /\ [][NextConsole]_vars

(***************************************************************************)
(* SpecSeverity: the loop with console producers that push texts of every  *)
(* shape.                                                                    *)
(***************************************************************************)
NextSeverity == Dispatch \/ ConsoleTextPush

SpecSeverity == InitConsole /\ [][NextSeverity]_vars

(***************************************************************************)
(* SpecStatus: send_status called once, for every value its inputs can     *)
(* hold: each cached field over its enumeration and the value the           *)
(* constructor stores, the producers over their enumerations.               *)
(***************************************************************************)
\* an enumerator of heli::Trajectory_Type that the switch does not name
Trajectory_Unnamed == "Trajectory_Unnamed"

InitStatus ==
    /\ InitSender /\ InitNoRequests /\ InitStores /\ InitRatesFixed
    /\ NoRateStudy
    /\ servo_source \in AUTOPILOT_MODE \cup {NUM_AUTOPILOT_MODES}
    /\ pilot_mode \in PILOT_MODE \cup {NUM_PILOT_MODES}
    /\ filter_state \in GX3_MODE \cup {NUM_GX3_MODES}
    /\ control_mode \in Controller_Mode \cup {Num_Controller_Modes}
    /\ attitude_source \in BOOLEAN
    /\ switch_pilot_mode \in PILOT_MODE
    /\ controller_mode = "Mode_Attitude_Stabilization_PID"
    /\ trajectory_type \in Trajectory_Type \cup {Trajectory_Unnamed}

\* send_status(send_queue) on an empty queue
StatusCall ==
    /\ pc = "init_pilot"
    /\ send_queue' = send_status(send_queue, loop_count)
    /\ pc' = "status_done"
    /\ UNCHANGED << loop_count, param_recv_local, cal_seen, held, cacheVars,
                    producerVars, sharedVars, storeVars, ghostVars, rateVars >>

SpecStatus == InitStatus /\ [][StatusCall]_vars

(***************************************************************************)
(* SpecStop: the loop, and a request to shut down that arrives at any      *)
(* point of it.                                                              *)
(***************************************************************************)
NextStop == Dispatch \/ Terminate \/ message_queue_push

SpecStop == InitConsole /\ [][NextStop]_vars

(***************************************************************************)
(* SpecRate: should_run called for count = 0, 1, 2, ... with one stream    *)
(* rate and one base rate.                                                   *)
(***************************************************************************)
BaseRates == (1..MaxBase) \cup {send_rate}

InitRate ==
    /\ InitObject /\ InitProducers /\ InitNoRequests /\ InitStores
    /\ InitRatesFixed
    /\ \E base \in BaseRates :
         \E r \in 0..(base + 2) :
            rate_in = [stream_rate |-> r, base_rate |-> base]
    /\ rate_out = << >>

\* the next call: count is the number of calls made so far
ShouldRunCall ==
    /\ Len(rate_out) < 2 * rate_in.base_rate + 1
    /\ rate_out' = Append(rate_out,
                      should_run(rate_in.stream_rate, rate_in.base_rate,
                                 Len(rate_out)))
    /\ UNCHANGED << loopVars, cacheVars, producerVars, sharedVars, storeVars,
                    ghostVars, rate_in >>

SpecRate == InitRate /\ [][ShouldRunCall]_vars


(***************************************************************************)
(* SpecRateSigned: should_run called with base rate 200 and a stream rate  *)
(* of either sign, for count = 0, 1, ...  A remainder by zero is undefined: *)
(* the call traps, or returns either value.                                  *)
(***************************************************************************)
SignedRates == (-(send_rate + MaxBase))..(send_rate + MaxBase)

InitRateSigned ==
    /\ InitObject /\ InitProducers /\ InitNoRequests /\ InitStores
    /\ InitRatesFixed
    /\ \E r \in SignedRates :
          rate_in = [stream_rate |-> r, base_rate |-> send_rate]
    /\ rate_out = << >>

\* the call evaluates count % (send_rate / stream_rate)
ReachesRemainder ==
    ~(rate_in.stream_rate = 0 \/ rate_in.stream_rate > rate_in.base_rate)

ShouldRunCallSigned ==
    /\ pc = "init_pilot"
    /\ Len(rate_out) <= MaxIter
    /\ IF /\ ReachesRemainder
          /\ rate_divisor(rate_in.stream_rate, rate_in.base_rate) = 0
       THEN \/ /\ pc' = "terminated"
               /\ UNCHANGED rate_out
            \/ /\ \E b \in BOOLEAN : rate_out' = Append(rate_out, b)
               /\ UNCHANGED pc
       ELSE /\ rate_out' = Append(rate_out,
                              should_run(rate_in.stream_rate,
                                         rate_in.base_rate, Len(rate_out)))
            /\ UNCHANGED pc
    /\ UNCHANGED << loop_count, send_queue, param_recv_local, cal_seen, held,
                    cacheVars, producerVars, sharedVars, storeVars, ghostVars,
                    rate_in >>

SpecRateSigned == InitRateSigned /\ [][ShouldRunCallSigned]_vars

(***************************************************************************)
(*                              Properties                                  *)
(***************************************************************************)
\* the iteration the transport calls of transport_log belong to
FlushIter == IF pc = "finish" THEN loop_count - 1 ELSE loop_count

\* C1: in every iteration the packets handed to the transport are in the
\* fixed precedence order (heartbeat, status, parameter dump, RC channels,
\* control effort, single-parameter replies, calibration, driver messages,
\* console), with at most one console message.
C1_PrecedenceOrder ==
    /\ \A i, j \in 1..Len(transport_log) :
         i < j => Rank(transport_log[i].pkt.cat) <= Rank(transport_log[j].pkt.cat)
    /\ Cardinality({i \in 1..Len(transport_log) :
                       transport_log[i].pkt.cat = "console"}) <= 1

\* C2: when the send of packet k faults, every later packet queued in the
\* same iteration has still been handed to the transport when that
\* iteration's flush ends.
C2_RestStillSent ==
    pc = "incr" =>
       \A i \in 1..Len(send_queue) :
          send_queue[i].iter = loop_count => send_queue[i].tries > 0

\* C3: no packet is handed to the transport twice, a flush hands over only
\* packets of its own iteration, and the send queue is empty when the flush
\* of an iteration has ended.
C3_NoResendNoCarry ==
    /\ \A i \in 1..Len(transport_log) :
         /\ transport_log[i].pkt.tries = 0
         /\ transport_log[i].pkt.iter = FlushIter
    /\ pc \in {"incr", "finish", "wait"} => send_queue = << >>

\* C4: a transport fault never ends the loop: every fault is caught and
\* reported, and each iteration, faulted or not, increments loop_count by
\* exactly one and issues finishedCriticalSection once.
StartPcs == {"init_pilot", "init_control", "connect"}
LoopPcs == {"wait", "heartbeat", "param_lock", "param_read", "param_send",
            "rc", "effort", "req_lock", "req_check", "req_drain",
            "req_unlock", "cal_check", "cal_send", "cal_clear", "drivers",
            "console_check", "console_pop", "flush", "catch", "incr",
            "finish"}

C4_FaultNotFatal ==
    /\ pc \in StartPcs \cup LoopPcs
    /\ warnings = IF pc = "catch" THEN faults - 1 ELSE faults
    /\ loop_count = IF pc \in {"finish", "wait"} \cup StartPcs
                    THEN waits ELSE waits - 1
    /\ finished = IF pc \in {"wait"} \cup StartPcs THEN waits ELSE waits - 1

\* an iteration that runs after an iteration whose flush faulted
C4_Witness ==
    /\ faults > 0
    /\ warnings = faults
    /\ pc = "flush"
    /\ loop_count = 1
    /\ finished = 1

\* C5: at most one console message is dequeued per iteration, in push
\* order; N messages pushed before one mailbox check, and none after, are
\* dequeued by the N iterations that follow, one each, leaving the mailbox
\* empty.
Texts(seq) == [i \in 1..Len(seq) |-> seq[i].text]

\* the last iteration whose console step has been taken
ConsoleDone == IF pc \in {"flush", "catch", "incr"} THEN loop_count
               ELSE loop_count - 1

C5_OnePerIterationFifo ==
    /\ \A i \in 1..(Len(popped) - 1) : popped[i].iter < popped[i + 1].iter
    /\ Texts(pushed) = Texts(popped) \o message_queue
    /\ Cardinality({i \in 1..Len(send_queue) :
                       /\ send_queue[i].cat = "console"
                       /\ send_queue[i].iter = loop_count}) <= 1
    /\ (\A i \in 1..Len(pushed) : pushed[i].round = pushed[1].round) =>
          \A j \in 1..Len(pushed) :
             ConsoleDone >= pushed[1].round + j - 1 =>
                /\ Len(popped) >= j
                /\ popped[j].iter = pushed[1].round + j - 1
                /\ (j = Len(pushed) => message_queue = << >>)

\* two different messages pushed before one check, both dequeued
C5_Witness ==
    /\ Len(pushed) = 2
    /\ pushed[1].round = pushed[2].round
    /\ pushed[1].text # pushed[2].text
    /\ Len(popped) = 2
    /\ message_queue = << >>

\* C6: should_run is false for every count when the stream rate is 0 or
\* above the base rate.
C6_NeverRuns ==
    (rate_in.stream_rate = 0 \/ rate_in.stream_rate > rate_in.base_rate) =>
       \A k \in 1..Len(rate_out) : rate_out[k] = FALSE

\* a rate above the base rate, called for a whole window of counts
C6_Witness ==
    /\ rate_in.base_rate = send_rate
    /\ rate_in.stream_rate > rate_in.base_rate
    /\ Len(rate_out) > rate_in.base_rate

\* C7: when 0 < r <= base and r divides base, should_run is true exactly at
\* the multiples of base/r, so in any base consecutive counts it is true
\* exactly r times.
Divides(r, base) == r > 0 /\ r <= base /\ base % r = 0

C7_ExactlyMultiples ==
    Divides(rate_in.stream_rate, rate_in.base_rate) =>
       LET r == rate_in.stream_rate
           base == rate_in.base_rate
           n == Len(rate_out)
       IN  /\ \A k \in 1..n : rate_out[k] = ((k - 1) % (base \div r) = 0)
           /\ n >= base =>
                Cardinality({k \in (n - base + 1)..n : rate_out[k]}) = r

\* rate 2 at base 200: true at 0, false at 1..99, true again at 100
C7_Witness ==
    /\ rate_in = [stream_rate |-> 2, base_rate |-> send_rate]
    /\ Len(rate_out) = 101
    /\ rate_out[1]
    /\ \A k \in 2..100 : ~rate_out[k]
    /\ rate_out[101]

DumpPackets ==
    SelectSeq(send_queue,
              LAMBDA p : p.cat = "param" /\ p.iter = loop_count)

C9_FullDump ==
    pc \in {"rc", "effort", "req_lock"} =>
       LET plist == control_parameters \o heli_parameters
           total == Len(control_parameters) + Len(heli_parameters)
       IN  IF param_recv_local
           THEN /\ Len(DumpPackets) = total
                /\ \A k \in 1..Len(DumpPackets) :
                      /\ DumpPackets[k].count = total
                      /\ DumpPackets[k].index = k - 1
                      /\ DumpPackets[k].id = plist[k]
           ELSE DumpPackets = << >>

\* 3 and 2 parameters: 5 packets, count 5, indices 0..4
C9_Witness ==
    /\ pc = "rc"
    /\ param_recv_local
    /\ Len(control_parameters) = 3
    /\ Len(heli_parameters) = 2
    /\ Len(DumpPackets) = 5
    /\ DumpPackets[5].index = 4
    /\ DumpPackets[4].id = HeliParams[1]

\* C10: the request FIFO is drained completely under its lock: one reply
\* per entry found, in FIFO order, each with count 1 and index -1; nothing
\* is pushed during the drain and the FIFO is empty when the lock is
\* released.
ReplyPackets ==
    SelectSeq(send_queue,
              LAMBDA p : p.cat = "reply" /\ p.iter = loop_count)

Ids(seq) == [i \in 1..Len(seq) |-> seq[i].id]

C10_DrainComplete ==
    /\ pc \in {"req_check", "req_drain", "req_unlock"} =>
          /\ "requested_params_lock" \in held
          /\ drained = Ids(ReplyPackets) \o requested_params
          /\ \A k \in 1..Len(ReplyPackets) :
                /\ ReplyPackets[k].count = 1
                /\ ReplyPackets[k].index = -1
    /\ pc = "req_unlock" =>
          /\ requested_params = << >>
          /\ Len(ReplyPackets) = Len(drained)

\* two different requests found queued, both answered, in order
C10_Witness ==
    /\ pc = "req_unlock"
    /\ Len(drained) = 2
    /\ drained[1] # drained[2]
    /\ Ids(ReplyPackets) = drained
    /\ requested_params = << >>

\* C11: the calibration stream is edge-triggered: an iteration that finds
\* the latch set enqueues exactly one calibration packet and its
\* calibration step ends by leaving the latch clear; an iteration that finds
\* it clear enqueues none; so the packets built never outnumber the set
\* events, and once the latch is clear again after a request a packet has
\* been built for it.
CalPackets ==
    SelectSeq(send_queue,
              LAMBDA p : p.cat = "calibration" /\ p.iter = loop_count)

C11_EdgeTriggered ==
    /\ [](/\ pc \in {"drivers", "console_check", "console_pop"} =>
               Len(CalPackets) = IF cal_seen THEN 1 ELSE 0
          /\ pc = "cal_clear" => Len(CalPackets) = 1
          /\ cal_built <= cal_requests
          /\ (cal_requests > 0 /\ ~requested_rc_calibration) => cal_built > 0)
    /\ [][pc = "cal_clear" /\ pc' = "drivers" =>
               ~requested_rc_calibration']_vars

\* one request, served by one packet in the iteration that found it, and a
\* later iteration that finds the latch clear and adds nothing
C11_Witness ==
    /\ cal_requests = 1
    /\ cal_built = 1
    /\ loop_count = 1
    /\ pc = "drivers"
    /\ ~cal_seen
    /\ CalPackets = << >>

\* C12: a console packet carries severity 255 exactly when the text that
\* was pushed begins with the marker "Critical" (same case), and severity 0
\* otherwise; "Critical:.." pushed before "Warn:.." gives a packet of
\* severity 255 in one iteration and a packet of severity 0 in the next.
ConsolePackets ==
    SelectSeq(send_queue, LAMBDA p : p.cat = "console") \o
    SelectSeq([i \in 1..Len(transport_log) |-> transport_log[i].pkt],
              LAMBDA p : p.cat = "console")

BeginsWithMarker(text) ==
    /\ Len(text) >= 8
    /\ \A i \in 1..8 : text[i] = Critical[i]

C12_SeverityByMarker ==
    \A k \in 1..Len(ConsolePackets) :
       \E j \in 1..Len(popped) :
          /\ popped[j].iter = ConsolePackets[k].iter
          /\ ConsolePackets[k].severity =
                IF BeginsWithMarker(popped[j].text) THEN 255 ELSE 0

\* the critical text then the warning text, dequeued in iterations 0 and 1;
\* the packet of iteration 1 is queued with severity 0
C12_Witness ==
    /\ Texts(pushed) = << MsgCritical, MsgWarning >>
    /\ popped = << [text |-> MsgCritical, iter |-> 0],
                   [text |-> MsgWarning, iter |-> 1] >>
    /\ pc = "flush"
    /\ send_queue # << >>
    /\ send_queue[Len(send_queue)].cat = "console"
    /\ send_queue[Len(send_queue)].severity = 0
    /\ send_queue[Len(send_queue)].text = MsgWarning

\* the status fields of the packet send_status built
StatusOut == send_queue[1].status

\* the remappings of the switch statements are one-to-one on the values
\* their case labels name
RemapInjective ==
    /\ \A x, y \in AUTOPILOT_MODE :
          x # y => qgc_servo_source(x) # qgc_servo_source(y)
    /\ \A x, y \in PILOT_MODE : x # y => qgc_pilot_mode(x) # qgc_pilot_mode(y)
    /\ \A x, y \in Trajectory_Type :
          x # y => qgc_trajectory(x) # qgc_trajectory(y)
    /\ \A x, y \in GX3_MODE :
          x # y => qgc_filter_state(x) # qgc_filter_state(y)
    /\ \A x, y \in Controller_Mode :
          x # y => qgc_control_mode(x) # qgc_control_mode(y)

\* the fields other than the pilot mode: a valid code exactly for the
\* values with a wire counterpart, 255 for every other value
RemapOthers ==
    /\ StatusOut[1] = qgc_servo_source(servo_source)
    /\ (StatusOut[1] # "255") = (servo_source \in AUTOPILOT_MODE)
    /\ StatusOut[2] = qgc_filter_state(filter_state)
    /\ (StatusOut[2] # "255") = (filter_state \in GX3_MODE)
    /\ StatusOut[4] = qgc_control_mode(control_mode)
    /\ (StatusOut[4] # "255") = (control_mode \in Controller_Mode)
    /\ StatusOut[6] = qgc_trajectory(trajectory_type)
    /\ (StatusOut[6] # "255") = (trajectory_type \in Trajectory_Type)

C16_QueryOnControlSentinel ==
    pc = "status_done" =>
       StatusOut[3] = IF control_mode = Num_Controller_Modes
                      THEN qgc_pilot_mode(switch_pilot_mode)
                      ELSE qgc_pilot_mode(pilot_mode)

\* C16 amended: send_status reports the pilot mode it queries from the
\* producer when the cached pilot_mode is NUM_PILOT_MODES, and the cached
\* pilot mode otherwise, whatever the cached control_mode is.
C16_QueryOnPilotSentinel ==
    pc = "status_done" =>
       StatusOut[3] = IF pilot_mode = NUM_PILOT_MODES
                      THEN qgc_pilot_mode(switch_pilot_mode)
                      ELSE qgc_pilot_mode(pilot_mode)

\* control_mode as constructed, a cached pilot mode that differs from the
\* producer's: the cached one is reported
C16_Witness ==
    /\ pc = "status_done"
    /\ control_mode = Num_Controller_Modes
    /\ pilot_mode = "PILOT_MANUAL"
    /\ switch_pilot_mode = "PILOT_AUTO"
    /\ StatusOut[3] = "UALBERTA_PILOT_MANUAL"

\* C14: a request for a full dump is neither lost nor served twice: every
\* interval in which the latch was set before being read is served by
\* exactly one dump, made by the iteration that read it, and the read leaves
\* the latch false whatever it found.
C14_DumpPerInterval ==
    /\ [](dump_intervals =
            dumps + (IF param_recv THEN 1 ELSE 0)
                  + (IF pc = "param_send" /\ param_recv_local THEN 1 ELSE 0))
    /\ [](pc \in {"rc", "effort", "req_lock"} =>
            (DumpPackets # << >>) = param_recv_local)
    /\ [][pc = "param_read" /\ pc' = "param_send" =>
             /\ ~param_recv'
             /\ param_recv_local' = param_recv]_vars

\* the latch set before one read and again after it: two dumps, one in
\* each of the iterations that read a set latch
C14_Witness ==
    /\ dump_intervals = 2
    /\ dumps = 2
    /\ loop_count = 1
    /\ pc = "rc"
    /\ ~param_recv
    /\ DumpPackets # << >>

\* C15: the dispatch thread holds no lock of the shared state while it
\* blocks in the pacing wait or calls the transport; every lock taken in an
\* iteration has been released when the flush begins.
C15_NoLockAcrossIO ==
    /\ pc \in {"wait", "console_check", "console_pop", "flush", "catch",
                "incr", "finish"} => held = {}
    /\ "param_recv_lock" \in held => pc = "param_read"
    /\ "requested_params_lock" \in held =>
          pc \in {"req_check", "req_drain", "req_unlock"}

\* an iteration that took both locks and drained the FIFO under its lock is
\* calling the transport
C15_Witness ==
    /\ pc = "flush"
    /\ held = {}
    /\ drained # << >>
    /\ transport_log # << >>
    /\ \E i \in 1..Len(send_queue) : send_queue[i].cat = "reply"

\* C17: the report of a transport fault never enters the console mailbox:
\* its text is never queued in the mailbox, never dequeued from it and
\* never enqueued as a console packet.
C17_FaultReportNotMailed ==
    /\ \A i \in 1..Len(message_queue) : message_queue[i] # MsgFault
    /\ \A j \in 1..Len(popped) : popped[j].text # MsgFault
    /\ \A k \in 1..Len(ConsolePackets) : ConsolePackets[k].text # MsgFault

\* C18: once the stop signal is raised the loop finishes at most the
\* iteration in progress and leaves: it returns from the pacing wait at
\* most once more, and does not start another iteration with its
\* subscriptions still connected.
C18_StopObserved ==
    stop_at >= 0 => waits <= stop_at + 1

\* C19: no calibration request is lost: a request that has not yet been
\* followed by the building of a calibration packet is still latched, so
\* that a later iteration builds a packet for it.
C19_RequestStaysLatched ==
    cal_unserved => requested_rc_calibration

\* C20: should_run never takes a remainder by zero: with base rate 200,
\* for every stream rate of either sign and every count, a call that
\* reaches count % (send_rate / stream_rate) finds send_rate / stream_rate
\* different from zero.
C20_DivisorNonZero ==
    (ReachesRemainder /\ (rate_out # << >> \/ pc = "terminated")) =>
       rate_divisor(rate_in.stream_rate, rate_in.base_rate) # 0

\* C21: the start of send() never leaves the cache stale: once the
\* subscriptions are connected, the cached pilot_mode and control_mode are
\* the producers' current modes, whenever the producers changed them.
C21_CacheCurrent ==
    connected =>
       /\ pilot_mode = switch_pilot_mode
       /\ control_mode = controller_mode

\* C22: message_queue_pop never runs on an empty mailbox: whenever the
\* loop is about to pop, the mailbox holds an entry, and it is the oldest
\* entry pushed and not yet popped; what has been popped is, in order, the
\* beginning of what has been pushed.
C22_PopNonEmptyOldest ==
    /\ Len(popped) <= Len(pushed)
    /\ \A j \in 1..Len(popped) : popped[j].text = pushed[j].text
    /\ pc = "console_pop" =>
          /\ message_queue # << >>
          /\ Head(message_queue) = pushed[Len(popped) + 1].text

\* a second, different text was pushed after the emptiness check of this
\* iteration; the pop has taken the older one and left the newer
C22_Witness ==
    /\ pc = "flush"
    /\ transport_log = << >>
    /\ Len(pushed) = 2
    /\ pushed[1].text # pushed[2].text
    /\ pushed[2].round = loop_count + 1
    /\ popped = << [text |-> pushed[1].text, iter |-> loop_count] >>
    /\ message_queue = << pushed[2].text >>

\* C23: a scheduled stream is never under-delivered: when 0 < r <= base,
\* should_run is true for at least r of any base consecutive counts, and
\* consecutive firings are exactly base \div r counts apart, whether or not
\* r divides base.
C23_NeverUnderDelivered ==
    (rate_in.stream_rate > 0 /\ rate_in.stream_rate <= rate_in.base_rate) =>
       LET r == rate_in.stream_rate
           base == rate_in.base_rate
           n == Len(rate_out)
           fires == {k \in 1..n : rate_out[k]}
       IN  /\ \A w \in 1..(n - base + 1) :
                Cardinality({k \in w..(w + base - 1) : rate_out[k]}) >= r
           /\ \A k \in fires :
                /\ \A j \in (k + 1)..(k + (base \div r) - 1) : j \notin fires
                /\ k + (base \div r) <= n => (k + (base \div r)) \in fires

\* rate 3 at base 200, which 3 does not divide: firings at 0, 66, 132 and
\* 198, four in the first 200 counts
C23_Witness ==
    /\ rate_in = [stream_rate |-> 3, base_rate |-> send_rate]
    /\ Len(rate_out) = send_rate + 1
    /\ {k \in 1..send_rate : rate_out[k]} = {1, 67, 133, 199}

=============================================================================
